---- MODULE Spec2Model ----
(***************************************************************************)
(* Model of the SLA calculator (7HW/src/calculate_sla/calculate_sla.py):   *)
(* storage bootstrap (Mysql.__init__), the evaluation loop (main), the     *)
(* metrics client (MageRequest.search), the extractor                      *)
(* (get_sum_from_mage_response), the evaluator                             *)
(* (calculate_availability_sli), the store (Mysql.save_indicator) and the  *)
(* signal handler (terminate).                                             *)
(***************************************************************************)
EXTENDS Integers, Sequences, FiniteSets, TLC

(***************************************************************************)
(* Bounds of the model.                                                    *)
(***************************************************************************)
\* largest counter value a backend row carries
MaxVal == 1
\* largest small count given to the evaluator on its own
MaxCount == 3
\* number of loop iterations that may be started
MaxIter == 2
\* largest processing time (seconds) that elapses within one iteration
MaxDelay == 1
\* rounds of the prober loop
MaxProbes == 2

(***************************************************************************)
(* Configuration (class Config) and the constants of main.                 *)
(***************************************************************************)
scrape_interval == 60
sla_period_minutes == 30
\* the values SLA_PERIOD_MINUTES is given: env.int accepts any integer, the
\* default applies when the variable is not set
PeriodChoices == {sla_period_minutes, 0, -1}
\* SLO targets, in tenths of a percent (99.9 and 98.0)
api_availability_slo == 999
creation_user_slo == 980

\* the two signals evaluated by main, in the order of the loop body
Signals == {1, 2}
SignalName(s) == IF s = 1 THEN "api_availability_percentage"
                          ELSE "creation_user_percentage"
SignalSlo(s) == IF s = 1 THEN api_availability_slo ELSE creation_user_slo

(***************************************************************************)
(* JSON values as the metrics backend returns them.                        *)
(*   Cell: the value of one field of a row                                 *)
(*     absent  the key is not in the row                                   *)
(*     num     a JSON number n                                             *)
(*     numstr  a JSON string holding the decimal text of n                 *)
(*     str     a JSON string that is not a number                          *)
(*     null    JSON null                                                   *)
(*     list    a JSON array                                                *)
(*     huge    a JSON integer beyond the range of a double (1e400 written  *)
(*             out in digits): Python parses it as an int                  *)
(***************************************************************************)
Fields == {"total_value", "success_value", "other"}
CellKinds == {"absent", "num", "numstr", "str", "null", "list", "huge"}
Absent == [t |-> "absent", n |-> 0]
PresentCells ==
    {[t |-> k, n |-> 0] : k \in {"str", "null", "list", "huge"}}
    \cup {[t |-> k, n |-> v] : k \in {"num", "numstr"}, v \in 0..MaxVal}

\* a row is a JSON object (dict) or some other JSON value; truthy is
\* Python's truth value of the row (an empty dict, 0, "" and null are falsy)
EmptyFields == [f \in Fields |-> Absent]
DictRow(f, c) == [t |-> "dict", truthy |-> TRUE,
                  f |-> [g \in Fields |-> IF g = f THEN c ELSE Absent]]
EmptyDict == [t |-> "dict", truthy |-> FALSE, f |-> EmptyFields]
OtherRow(b) == [t |-> "other", truthy |-> b, f |-> EmptyFields]
Rows == {DictRow(f, c) : f \in Fields, c \in PresentCells}
        \cup {EmptyDict, OtherRow(TRUE), OtherRow(FALSE)}
\* rows that may follow the first row of a result
LaterRows == {DictRow(f, [t |-> "num", n |-> MaxVal]) :
                  f \in {"total_value", "success_value"}}

\* the value of the "hits" key of the response body
\*   absent: no such key; null: JSON null; list: an array of rows;
\*   other: a truthy value that is not an array (an object, a string)
EmptyList == [t |-> "list", rows |-> <<>>]
HitsValues ==
    {[t |-> k, rows |-> <<>>] : k \in {"absent", "null", "other", "list"}}
    \cup {[t |-> "list", rows |-> <<r>>] : r \in Rows}
    \cup {[t |-> "list", rows |-> <<r, l>>] : r \in Rows, l \in LaterRows}

\* the body of an HTTP response
\*   notjson: response.json() raises; array: valid JSON, not an object;
\*   object: a JSON object whose "hits" key is hits
Bodies == {[t |-> k, hits |-> [t |-> "absent", rows |-> <<>>]] :
               k \in {"notjson", "array"}}
          \cup {[t |-> "object", hits |-> h] : h \in HitsValues}

\* the statuses a response may carry: two of the 2xx range, one below 400
\* outside it, and one that raise_for_status rejects
Statuses == {200, 201, 300, 500}

\* what session.post does: it times out, fails in transport, or delivers
\* a response with a status and a body
Responses ==
    {[io |-> k, status |-> 0, body |-> [t |-> "notjson",
        hits |-> [t |-> "absent", rows |-> <<>>]]] :
        k \in {"timeout", "connection_error"}}
    \cup {[io |-> "ok", status |-> s, body |-> b] :
             s \in Statuses, b \in Bodies}

(***************************************************************************)
(* MageRequest.search: the hits of the response, [] on any failure.       *)
(* The result is [exc, val]: the exception that leaves the function        *)
(* ("none" when it returns) and the value returned.                        *)
(***************************************************************************)
Truthy(h) == \/ h.t = "other"
             \/ h.t = "list" /\ Len(h.rows) > 0

\* response.raise_for_status() raises HTTPError for a status of 400 to 599
raise_for_status(status) == status >= 400 /\ status < 600

search(resp) ==
    IF resp.io # "ok"
    THEN \* requests.exceptions.RequestException
         [exc |-> "none", val |-> EmptyList]
    ELSE IF raise_for_status(resp.status)
    THEN \* HTTPError, a RequestException
         [exc |-> "none", val |-> EmptyList]
    ELSE IF resp.body.t = "notjson"
    THEN \* response.json() raises
         [exc |-> "none", val |-> EmptyList]
    ELSE IF resp.body.t = "array"
    THEN \* content.get: AttributeError, caught by except Exception
         [exc |-> "none", val |-> EmptyList]
    ELSE IF ~Truthy(resp.body.hits)
    THEN \* if not hits: return []
         [exc |-> "none", val |-> EmptyList]
    ELSE [exc |-> "none", val |-> resp.body.hits]

(***************************************************************************)
(* get_sum_from_mage_response: the field of the first row as a float.     *)
(* float() converts a number or a numeric string; it raises ValueError on  *)
(* other text and TypeError on null or an array (both caught: 0.0), and    *)
(* OverflowError on an int beyond the range of a double (not caught).      *)
(***************************************************************************)
\* the extractor adding up the field over all rows
RECURSIVE SumField(_, _, _)
SumField(rows, field_name, i) ==
    IF i > Len(rows)
    THEN 0
    ELSE (IF rows[i].f[field_name].t \in {"num", "numstr"}
          THEN rows[i].f[field_name].n ELSE 0)
         + SumField(rows, field_name, i + 1)

get_sum_from_mage_response_summing(hits, field_name) ==
    IF \/ hits.t # "list"
       \/ Len(hits.rows) = 0
       \/ ~hits.rows[1].truthy
       \/ hits.rows[1].t # "dict"
       \/ hits.rows[1].f[field_name].t \in {"absent", "str", "null", "list"}
    THEN [exc |-> "none", val |-> 0]
    ELSE IF hits.rows[1].f[field_name].t = "huge"
    THEN [exc |-> "OverflowError", val |-> 0]
    ELSE [exc |-> "none", val |-> SumField(hits.rows, field_name, 1)]

get_sum_from_mage_response(hits, field_name) ==
    IF \/ hits.t # "list"
       \/ Len(hits.rows) = 0
       \/ ~hits.rows[1].truthy
       \/ hits.rows[1].t # "dict"
    THEN [exc |-> "none", val |-> 0]
    ELSE IF hits.rows[1].f[field_name].t = "absent"
    THEN [exc |-> "none", val |-> 0]
    ELSE LET c == hits.rows[1].f[field_name]
         IN  CASE c.t \in {"num", "numstr"} -> [exc |-> "none", val |-> c.n]
               [] c.t \in {"str", "null", "list"} -> [exc |-> "none", val |-> 0]
               [] c.t = "huge" -> [exc |-> "OverflowError", val |-> 0]

(***************************************************************************)
(* calculate_availability_sli: the percentage as the fraction num/den in   *)
(* lowest terms (equal floats are equal fractions).                        *)
(***************************************************************************)
RECURSIVE Gcd(_, _)
Gcd(a, b) == IF b = 0 THEN a ELSE Gcd(b, a % b)

Fraction(n, d) == LET g == Gcd(n, d) IN [num |-> n \div g, den |-> d \div g]

\* the ratio without the guard value for an empty window: 0 of 0 is 0
calculate_availability_sli_zero_total(total_checks, success_checks) ==
    IF total_checks = 0
    THEN [num |-> 0, den |-> 1]
    ELSE Fraction(success_checks * 100, total_checks)

\* the ratio clamped to 100
calculate_availability_sli_clamped(total_checks, success_checks) ==
    IF total_checks = 0 \/ success_checks > total_checks
    THEN [num |-> 100, den |-> 1]
    ELSE Fraction(success_checks * 100, total_checks)

calculate_availability_sli(total_checks, success_checks) ==
    IF total_checks = 0
    THEN [num |-> 100, den |-> 1]
    ELSE Fraction(success_checks * 100, total_checks)

\* percentage <= slo
BelowSlo_inclusive(percentage, slo) ==
    percentage.num * 10 <= slo * percentage.den

\* percentage < slo, slo in tenths of a percent
BelowSlo(percentage, slo) == percentage.num * 10 < slo * percentage.den

\* the verdict and the arguments of db.save_indicator for signal s with
\* percentage p, in a run with the given period, at evaluation instant t
MakeRecord(s, p, period, t) ==
    [name |-> SignalName(s),
     slo_target |-> SignalSlo(s),
     sli |-> p,
     is_bad |-> BelowSlo(p, SignalSlo(s)),
     period_minutes |-> period,
     datetime |-> t]

(***************************************************************************)
(* The storage schema and the statements of Mysql.__init__.                *)
(* idx_datetime and idx_name count the indexes on the two columns: ALTER   *)
(* TABLE ... ADD INDEX (col) names the index col, or col_2, col_3, ... when *)
(* that name is taken, so the statement adds an index whenever it runs and *)
(* SHOW INDEX ... WHERE Key_name = 'col' finds a row iff the count is > 0. *)
(***************************************************************************)
PriorSchemas ==
    {s \in [db : BOOLEAN, table : BOOLEAN,
            idx_datetime : 0..1, idx_name : 0..1] :
        /\ s.table => s.db
        /\ ~s.table => (s.idx_datetime = 0 /\ s.idx_name = 0)}

\* the rows table sla_indicators may hold when the process starts: none, or
\* a record an earlier run of the process wrote
EarlierRecord ==
    MakeRecord(1, calculate_availability_sli(0, 0), sla_period_minutes,
               0 - scrape_interval)
PriorStores(s) == IF s.table THEN {<<>>, <<EarlierRecord>>} ELSE {<<>>}

\* the statements between connect and the return of the constructor
BootStmts == {"create_db", "use_db", "create_table", "show_idx_datetime",
              "add_idx_datetime", "show_idx_name", "add_idx_name"}

\* the server accepts the statement at loc in schema s
StatementAccepted(loc, s) ==
    CASE loc = "create_db" -> TRUE
      [] loc \in {"use_db", "create_table"} -> s.db
      [] OTHER -> s.db /\ s.table

\* the schema after the statement at loc
ExecuteSql(loc, s) ==
    CASE loc = "create_db" -> [s EXCEPT !.db = TRUE]
      [] loc = "create_table" -> [s EXCEPT !.table = TRUE]
      [] loc = "add_idx_datetime" -> [s EXCEPT !.idx_datetime = @ + 1]
      [] loc = "add_idx_name" -> [s EXCEPT !.idx_name = @ + 1]
      [] OTHER -> s

\* the statement after loc when the indexes are added without the SHOW
\* INDEX check
NextStmt_unchecked(loc, s) ==
    CASE loc = "create_db" -> "use_db"
      [] loc = "use_db" -> "create_table"
      [] loc = "create_table" -> "show_idx_datetime"
      [] loc = "show_idx_datetime" -> "add_idx_datetime"
      [] loc = "add_idx_datetime" -> "show_idx_name"
      [] loc = "show_idx_name" -> "add_idx_name"
      [] loc = "add_idx_name" -> "booted"

\* the statement after loc; "booted" when the constructor returns
NextStmt(loc, s) ==
    CASE loc = "create_db" -> "use_db"
      [] loc = "use_db" -> "create_table"
      [] loc = "create_table" -> "show_idx_datetime"
      [] loc = "show_idx_datetime" ->
            IF s.idx_datetime = 0 THEN "add_idx_datetime" ELSE "show_idx_name"
      [] loc = "add_idx_datetime" -> "show_idx_name"
      [] loc = "show_idx_name" ->
            IF s.idx_name = 0 THEN "add_idx_name" ELSE "booted"
      [] loc = "add_idx_name" -> "booted"

\* one statement of the try block of Mysql.__init__; up is FALSE when the
\* server cannot be reached or refuses the statement (mysql.connector.Error)
BootStep(loc, s, up) ==
    IF up /\ StatementAccepted(loc, s)
    THEN [err |-> FALSE, pc |-> NextStmt(loc, s), schema |-> ExecuteSql(loc, s)]
    ELSE [err |-> TRUE, pc |-> loc, schema |-> s]

(***************************************************************************)
(* State.                                                                  *)
(***************************************************************************)
VARIABLES
    pc,            \* position of the process in main / Mysql.__init__
    sig,           \* the signal being evaluated (1 or 2)
    iter,          \* iterations of the while loop started
    now,           \* the clock, seconds
    current_time,  \* main's current_time: the end of the window
    schema,        \* the storage schema
    store,         \* the rows of table sla_indicators, in insertion order
    conn,          \* the MySQL connection is open
    db,            \* main's variable db is set (the constructor returned)
    totalHits,     \* result of the total-count search
    successHits,   \* result of the success-count search
    exc,           \* the exception raised last: [type, code, at, sig]
    exitCode,      \* exit status of the process, -1 while it runs
    critical,      \* logging.critical was called
    saveLog,       \* per signal, what save_indicator logged this iteration
    pc2,           \* position of a second process running Mysql.__init__
    overlap,       \* the two bootstraps ran at the same time
    stage,         \* position of the function pipeline (pure functions)
    arg,           \* its input: [resp, field]
    res,           \* its last result: [exc, val] of search, [exc, num] of
                   \* get_sum_from_mage_response
    config,        \* the Config read at startup: [sla_period_minutes]
    counts,        \* input of the evaluator: [total, success, sig]
    outcome,       \* its result: [percentage, record]
    prober         \* the prober process: its position, its Prometheus
                   \* counters and the locals of the probe under way

vars == <<pc, sig, iter, now, current_time, schema, store, conn, db,
          totalHits, successHits, exc, exitCode, critical, saveLog,
          pc2, overlap, stage, arg, res, config, counts, outcome, prober>>

loopVars == <<sig, iter, now, current_time, store, totalHits, successHits,
              saveLog>>
pureVars == <<stage, arg, res, counts, outcome, prober>>

NoExc == [type |-> "none", code |-> 0, at |-> "none", sig |-> 0]
NoLog == [s \in Signals |-> "none"]
NoArg == [resp |-> [io |-> "timeout", status |-> 0,
                    body |-> [t |-> "notjson",
                              hits |-> [t |-> "absent", rows |-> <<>>]]],
          field |-> "total_value"]
NoRes == [exc |-> "none", hits |-> EmptyList, num |-> 0]
DefaultConfig == [sla_period_minutes |-> sla_period_minutes]
NoCounts == [total |-> 0, success |-> 0, sig |-> 1]
\* the prober before main: every Counter at 0
NoProber == [at |-> "probe",
             api_total |-> 0, api_success |-> 0, api_fail |-> 0,
             notification_total |-> 0, notification_success |-> 0,
             notification_fail |-> 0,
             create_success |-> FALSE, delete_success |-> FALSE,
             create_status |-> 0, delete_status |-> 0,
             delete_attempted |-> FALSE, exiting |-> FALSE,
             interrupted |-> "none"]
NoOutcome == [percentage |-> calculate_availability_sli(0, 0),
              record |-> MakeRecord(1, calculate_availability_sli(0, 0),
                                    sla_period_minutes, 0)]

\* positions of the loop body that belong to one signal's evaluation
EvalPcs == {"search_total", "search_success", "extract", "save_cursor",
            "save_execute", "save_return"}
\* positions where the process is in the state Running
RunningPcs == EvalPcs \cup {"loop_top", "sleep"}
\* positions where the process is in the state Initializing
InitPcs == BootStmts \cup {"connect", "booted"}

Init ==
    /\ pc = "connect"
    /\ sig = 1
    /\ iter = 0
    /\ now = 0
    /\ current_time = 0
    /\ schema \in PriorSchemas
    /\ store = <<>>
    /\ conn = FALSE
    /\ db = FALSE
    /\ totalHits = EmptyList
    /\ successHits = EmptyList
    /\ exc = NoExc
    /\ exitCode = -1
    /\ critical = FALSE
    /\ saveLog = NoLog
    /\ pc2 = "off"
    /\ overlap = FALSE
    /\ stage = "off"
    /\ arg = NoArg
    /\ res = NoRes
    /\ config = DefaultConfig
    /\ counts = NoCounts
    /\ outcome = NoOutcome
    /\ prober = NoProber

(***************************************************************************)
(* Initializing: Mysql.__init__ called from main.                          *)
(***************************************************************************)
\* the exception raised at the current position
Raised(type, code) == [type |-> type, code |-> code, at |-> pc, sig |-> sig]

\* mysql.connector.connect (and the first cursor), outside the try block of
\* the constructor: an error propagates to the except clause of main
Connect ==
    /\ pc = "connect"
    /\ \E up \in BOOLEAN :
          IF up
          THEN /\ conn' = TRUE
               /\ pc' = "create_db"
               /\ exc' = exc
          ELSE /\ conn' = conn
               /\ pc' = "except"
               /\ exc' = Raised("Error", 0)
    /\ overlap' = (overlap \/ pc2 \in BootStmts)
    /\ UNCHANGED <<loopVars, pureVars, config, schema, db, exitCode, critical, pc2>>

\* one statement of the try block, applied by the server; at "booted" the
\* last one is applied and the constructor has not returned yet.
\* mysql.connector.Error is logged at critical level and sys.exit(1) raises
\* SystemExit through main
Bootstrap ==
    /\ pc \in BootStmts
    /\ \E up \in BOOLEAN :
          LET r == BootStep(pc, schema, up)
          IN  IF r.err
              THEN /\ critical' = TRUE
                   /\ exc' = Raised("SystemExit", 1)
                   /\ pc' = "finally"
                   /\ UNCHANGED <<schema, db>>
              ELSE /\ schema' = r.schema
                   /\ pc' = r.pc
                   /\ UNCHANGED <<critical, exc, db>>
    /\ overlap' = (overlap \/ pc2 \in BootStmts)
    /\ UNCHANGED <<loopVars, pureVars, config, conn, exitCode, pc2>>

\* the last execute returns, the constructor returns and main binds db
ConstructorReturn ==
    /\ pc = "booted"
    /\ db' = TRUE
    /\ pc' = "loop_top"
    /\ UNCHANGED <<loopVars, pureVars, config, schema, conn, exc, exitCode,
                   critical, pc2, overlap>>

(***************************************************************************)
(* Running: the body of the while loop of main.                            *)
(***************************************************************************)
\* what the backend may answer to the query for field: a timeout, a 500, a
\* single row with a count, or a single row with a count beyond a double
CountRow(field, c) == [t |-> "list", rows |-> <<DictRow(field, c)>>]
LoopResponses(field) ==
    {r \in Responses :
        \/ r.io = "timeout"
        \/ /\ r.io = "ok"
           /\ r.body.t = "object"
           /\ \/ /\ r.status = 500
                 /\ r.body.hits = CountRow(field, [t |-> "num", n |-> MaxVal])
              \/ /\ r.status = 200
                 /\ \E c \in PresentCells :
                       /\ c.t \in {"num", "huge"}
                       /\ r.body.hits = CountRow(field, c)}

\* start_time = current_time - timedelta(minutes=config.sla_period_minutes),
\* in seconds
WindowStart(end, period) == end - 60 * period
start_time == WindowStart(current_time, config.sla_period_minutes)

\* current_time = datetime.now(timezone.utc); start_time follows from it
LoopTop ==
    /\ pc = "loop_top"
    /\ iter < MaxIter
    /\ iter' = iter + 1
    /\ current_time' = now
    /\ sig' = 1
    /\ saveLog' = NoLog
    /\ pc' = "search_total"
    /\ UNCHANGED <<now, schema, store, conn, db, totalHits, successHits, exc,
                   exitCode, critical, pc2, overlap, pureVars, config>>

\* mage_client.search(total query, start_time, current_time)
SearchTotal ==
    /\ pc = "search_total"
    /\ \E resp \in LoopResponses("total_value") :
          totalHits' = search(resp).val
    /\ pc' = "search_success"
    /\ UNCHANGED <<sig, iter, now, current_time, schema, store, conn, db,
                   successHits, exc, exitCode, critical, saveLog, pc2,
                   overlap, pureVars, config>>

\* mage_client.search(success query, start_time, current_time)
SearchSuccess ==
    /\ pc = "search_success"
    /\ \E resp \in LoopResponses("success_value") :
          successHits' = search(resp).val
    /\ pc' = "extract"
    /\ UNCHANGED <<sig, iter, now, current_time, schema, store, conn, db,
                   totalHits, exc, exitCode, critical, saveLog, pc2,
                   overlap, pureVars, config>>

\* the two calls of get_sum_from_mage_response; an exception that leaves
\* either call propagates to the except clause of main
TotalVal == get_sum_from_mage_response(totalHits, "total_value")
SuccessVal == get_sum_from_mage_response(successHits, "success_value")

Extract ==
    /\ pc = "extract"
    /\ IF TotalVal.exc # "none" \/ SuccessVal.exc # "none"
       THEN /\ exc' = Raised("OverflowError", 0)
            /\ pc' = "except"
       ELSE /\ exc' = exc
            /\ pc' = "save_cursor"
    /\ UNCHANGED <<loopVars, schema, conn, db, exitCode, critical, pc2,
                   overlap, pureVars, config>>

\* the ratio of the current signal
Percentage == calculate_availability_sli(TotalVal.val, SuccessVal.val)

\* a record stamped with the time of the write, not the end of the window
IndicatorRecord_at_write ==
    MakeRecord(sig, Percentage, config.sla_period_minutes, now)

\* the record main passes to save_indicator for the current signal
IndicatorRecord ==
    MakeRecord(sig, Percentage, config.sla_period_minutes, current_time)

\* save_indicator, first line: self.connection.cursor() is outside the try
\* block, so an error of the connection propagates to main
SaveCursor ==
    /\ pc = "save_cursor"
    /\ \E up \in BOOLEAN :
          IF up
          THEN /\ pc' = "save_execute"
               /\ exc' = exc
          ELSE /\ pc' = "except"
               /\ exc' = Raised("Error", 0)
    /\ UNCHANGED <<loopVars, schema, conn, db, exitCode, critical, pc2,
                   overlap, pureVars, config>>

\* save_indicator that executes the INSERT a second time
save_indicator_twice(rows, record, up) ==
    IF up
    THEN [raised |-> FALSE, store |-> Append(Append(rows, record), record),
          log |-> "saved"]
    ELSE [raised |-> FALSE, store |-> rows, log |-> "error"]

\* save_indicator on a table that lists the newest row first
save_indicator_prepending(rows, record, up) ==
    IF up
    THEN [raised |-> FALSE, store |-> <<record>> \o rows, log |-> "saved"]
    ELSE [raised |-> FALSE, store |-> rows, log |-> "error"]

\* save_indicator that replaces the rows of the table by the new one
save_indicator_replacing(rows, record, up) ==
    IF up
    THEN [raised |-> FALSE, store |-> <<record>>, log |-> "saved"]
    ELSE [raised |-> FALSE, store |-> rows, log |-> "error"]

\* save_indicator, the try block: the INSERT is executed, or
\* mysql.connector.Error is logged and the record is dropped; the result is
\* [raised, store, log]: whether an exception leaves the method, the rows
\* of the table afterwards, and what was logged
save_indicator(rows, record, up) ==
    IF up
    THEN [raised |-> FALSE, store |-> Append(rows, record), log |-> "saved"]
    ELSE [raised |-> FALSE, store |-> rows, log |-> "error"]

\* d is the time the evaluation of the signal has taken when the write
\* returns; the work of one iteration takes MaxDelay at most
SaveExecute ==
    /\ pc = "save_execute"
    /\ \E d \in 0..(MaxDelay - (now - current_time)) : now' = now + d
    /\ \E up \in BOOLEAN :
          LET r == save_indicator(store, IndicatorRecord, up)
          IN  /\ store' = r.store
              /\ IF r.log = "saved"
                 THEN \* the server has stored the row; execute has not
                      \* returned yet
                      /\ pc' = "save_return"
                      /\ UNCHANGED <<saveLog, exc, sig, totalHits,
                                     successHits>>
                 ELSE /\ saveLog' = [saveLog EXCEPT ![sig] = r.log]
                      /\ IF r.raised
                         THEN /\ exc' = Raised("Error", 0)
                              /\ pc' = "except"
                              /\ sig' = sig
                         ELSE /\ exc' = exc
                              /\ IF sig = 1
                                 THEN /\ sig' = 2
                                      /\ pc' = "search_total"
                                 ELSE /\ sig' = sig
                                      /\ pc' = "sleep"
                      \* the hits of this signal are not read again
                      /\ totalHits' = EmptyList
                      /\ successHits' = EmptyList
    /\ UNCHANGED <<iter, current_time, schema, conn, db, exitCode,
                   critical, pc2, overlap, pureVars, config>>

\* cursor.execute returns: save_indicator logs the record as saved and
\* returns, main goes on to the next signal or to the sleep
SaveReturn ==
    /\ pc = "save_return"
    /\ saveLog' = [saveLog EXCEPT ![sig] = "saved"]
    /\ IF sig = 1
       THEN /\ sig' = 2
            /\ pc' = "search_total"
       ELSE /\ sig' = sig
            /\ pc' = "sleep"
    /\ totalHits' = EmptyList
    /\ successHits' = EmptyList
    /\ UNCHANGED <<iter, now, current_time, schema, store, conn, db, exc,
                   exitCode, critical, pc2, overlap, pureVars, config>>

\* the loop without time.sleep
Sleep_skipped ==
    /\ pc = "sleep"
    /\ now' = now
    /\ pc' = "loop_top"
    /\ UNCHANGED <<sig, iter, current_time, schema, store, conn, db,
                   totalHits, successHits, exc, exitCode, critical, saveLog,
                   pc2, overlap, pureVars, config>>

\* time.sleep(config.scrape_interval)
Sleep ==
    /\ pc = "sleep"
    /\ now' = now + scrape_interval
    /\ pc' = "loop_top"
    /\ UNCHANGED <<sig, iter, current_time, schema, store, conn, db,
                   totalHits, successHits, exc, exitCode, critical, saveLog,
                   pc2, overlap, pureVars, config>>

(***************************************************************************)
(* Leaving main: except Exception, finally, and the signal handler.        *)
(***************************************************************************)
\* except Exception as e: logging.critical(...)
Except ==
    /\ pc = "except"
    /\ critical' = TRUE
    /\ pc' = "finally"
    /\ UNCHANGED <<loopVars, schema, conn, db, exc, exitCode, pc2, overlap,
                   pureVars, config>>

\* the exit status once main is left with exception e pending: SystemExit
\* carries its code, a handled exception lets the script end normally
ExitStatus(e) == IF e.type = "SystemExit" THEN e.code ELSE 0

\* finally: if db: db.close(); then the interpreter exits
Finally ==
    /\ pc = "finally"
    /\ conn' = IF db THEN FALSE ELSE conn
    /\ exitCode' = ExitStatus(exc)
    /\ pc' = "stopped"
    /\ UNCHANGED <<loopVars, schema, db, exc, critical, pc2, overlap,
                   pureVars, config>>

\* a handler that returns without sys.exit
terminate_returning(at) == [pc |-> at, code |-> 0, exit |-> -1]

\* terminate(signal, frame), installed for SIGTERM and SIGINT: sys.exit(0)
\* raises SystemExit at the position the main thread is at; except
\* Exception does not catch it, the finally clause of main runs. A signal
\* that arrives inside the finally clause ends it.
terminate(at) ==
    IF at = "finally"
    THEN [pc |-> "stopped", code |-> 0, exit |-> 0]
    ELSE [pc |-> "finally", code |-> 0, exit |-> -1]

Terminate ==
    /\ pc # "stopped"
    /\ \E signum \in {"SIGTERM", "SIGINT"} :
          LET r == terminate(pc)
          IN  /\ pc' = r.pc
              /\ exc' = Raised("SystemExit", r.code)
              /\ exitCode' = r.exit
    /\ UNCHANGED <<loopVars, schema, conn, db, critical, pc2, overlap,
                   pureVars, config>>

Next ==
    \/ Connect
    \/ Bootstrap
    \/ ConstructorReturn
    \/ LoopTop
    \/ SearchTotal
    \/ SearchSuccess
    \/ Extract
    \/ SaveCursor
    \/ SaveExecute
    \/ SaveReturn
    \/ Sleep
    \/ Except
    \/ Finally
    \/ Terminate

Spec == Init /\ [][Next]_vars

(***************************************************************************)
(* The process started in any deployment: SLA_PERIOD_MINUTES set to any of *)
(* PeriodChoices, and a table that may hold a record of an earlier run.    *)
(***************************************************************************)
InitDeploy ==
    /\ pc = "connect"
    /\ sig = 1
    /\ iter = 0
    /\ now = 0
    /\ current_time = 0
    /\ schema \in PriorSchemas
    /\ store \in PriorStores(schema)
    /\ conn = FALSE
    /\ db = FALSE
    /\ totalHits = EmptyList
    /\ successHits = EmptyList
    /\ exc = NoExc
    /\ exitCode = -1
    /\ critical = FALSE
    /\ saveLog = NoLog
    /\ pc2 = "off"
    /\ overlap = FALSE
    /\ stage = "off"
    /\ arg = NoArg
    /\ res = NoRes
    /\ config \in [sla_period_minutes : PeriodChoices]
    /\ counts = NoCounts
    /\ outcome = NoOutcome
    /\ prober = NoProber

SpecDeploy == InitDeploy /\ [][Next]_vars

(***************************************************************************)
(* Two processes that run Mysql.__init__ against the same storage.         *)
(***************************************************************************)
PeerConnect ==
    /\ pc2 = "connect"
    /\ \E up \in BOOLEAN : pc2' = IF up THEN "create_db" ELSE "failed"
    /\ overlap' = (overlap \/ pc \in BootStmts)
    /\ UNCHANGED <<loopVars, pureVars, config, pc, schema, conn, db, exc, exitCode,
                   critical>>

PeerBootstrap ==
    /\ pc2 \in BootStmts
    /\ \E up \in BOOLEAN :
          LET r == BootStep(pc2, schema, up)
          IN  IF r.err
              THEN /\ pc2' = "failed"
                   /\ schema' = schema
              ELSE /\ pc2' = r.pc
                   /\ schema' = r.schema
    /\ overlap' = (overlap \/ pc \in BootStmts)
    /\ UNCHANGED <<loopVars, pureVars, config, pc, conn, db, exc, exitCode,
                   critical>>

InitBoot ==
    /\ pc = "connect"
    /\ sig = 1
    /\ iter = 0
    /\ now = 0
    /\ current_time = 0
    /\ schema \in PriorSchemas
    /\ store = <<>>
    /\ conn = FALSE
    /\ db = FALSE
    /\ totalHits = EmptyList
    /\ successHits = EmptyList
    /\ exc = NoExc
    /\ exitCode = -1
    /\ critical = FALSE
    /\ saveLog = NoLog
    /\ pc2 = "connect"
    /\ overlap = FALSE
    /\ stage = "off"
    /\ arg = NoArg
    /\ res = NoRes
    /\ config = DefaultConfig
    /\ counts = NoCounts
    /\ outcome = NoOutcome
    /\ prober = NoProber

NextBoot ==
    \/ Connect
    \/ Bootstrap
    \/ ConstructorReturn
    \/ PeerConnect
    \/ PeerBootstrap

SpecBoot == InitBoot /\ [][NextBoot]_vars

(***************************************************************************)
(* The functions on their own: a response goes through search, its result  *)
(* through get_sum_from_mage_response.                                     *)
(***************************************************************************)
ApplySearch ==
    /\ stage = "input"
    /\ LET r == search(arg.resp)
       IN  res' = [exc |-> r.exc, hits |-> r.val, num |-> 0]
    /\ stage' = "searched"
    /\ UNCHANGED <<loopVars, pc, schema, conn, db, exc, exitCode, critical,
                   pc2, overlap, arg, config, counts, outcome, prober>>

ApplyExtract ==
    /\ stage = "searched"
    /\ res.exc = "none"
    /\ LET r == get_sum_from_mage_response(res.hits, arg.field)
       IN  res' = [exc |-> r.exc, hits |-> res.hits, num |-> r.val]
    /\ stage' = "extracted"
    /\ UNCHANGED <<loopVars, pc, schema, conn, db, exc, exitCode, critical,
                   pc2, overlap, arg, config, counts, outcome, prober>>

InitPure ==
    /\ pc = "connect"
    /\ sig = 1
    /\ iter = 0
    /\ now = 0
    /\ current_time = 0
    /\ schema = [db |-> FALSE, table |-> FALSE,
                 idx_datetime |-> 0, idx_name |-> 0]
    /\ store = <<>>
    /\ conn = FALSE
    /\ db = FALSE
    /\ totalHits = EmptyList
    /\ successHits = EmptyList
    /\ exc = NoExc
    /\ exitCode = -1
    /\ critical = FALSE
    /\ saveLog = NoLog
    /\ pc2 = "off"
    /\ overlap = FALSE
    /\ stage = "input"
    /\ arg \in [resp : Responses, field : {"total_value", "success_value"}]
    /\ res = NoRes
    /\ config = DefaultConfig
    /\ counts = NoCounts
    /\ outcome = NoOutcome
    /\ prober = NoProber

NextPure ==
    \/ ApplySearch
    \/ ApplyExtract

SpecPure == InitPure /\ [][NextPure]_vars

(***************************************************************************)
(* Fairness: the process runs whenever it can take a step; signals and the *)
(* answers of backend and storage are the environment's.                   *)
(***************************************************************************)
Program ==
    \/ Connect
    \/ Bootstrap
    \/ ConstructorReturn
    \/ LoopTop
    \/ SearchTotal
    \/ SearchSuccess
    \/ Extract
    \/ SaveCursor
    \/ SaveExecute
    \/ SaveReturn
    \/ Sleep
    \/ Except
    \/ Finally

FairSpec == Spec /\ WF_vars(Program)

(***************************************************************************)
(* Properties.                                                             *)
(***************************************************************************)
\* an exception other than the SystemExit of a signal is pending or was
\* handled by main
Failed == exc.type \in {"Error", "OverflowError"}
\* the process was told to terminate while Running
TermInRunning ==
    exc.type = "SystemExit" /\ exc.code = 0 /\ exc.at \in RunningPcs
\* the store holds a record of signal s stamped with this iteration's time
Recorded(s) ==
    \E i \in DOMAIN store :
        store[i].name = SignalName(s) /\ store[i].datetime = current_time
RecordCount(s) ==
    Cardinality({i \in DOMAIN store :
        store[i].name = SignalName(s) /\ store[i].datetime = current_time})

\* C1: a failure inside one signal's evaluation (query, extraction, write,
\* or obtaining the cursor) does not leave the loop: the process stays in
\* Running, so the other signal and the next iteration are still evaluated.
C1_FailureContained ==
    (Failed /\ exc.at \in EvalPcs) => pc \in RunningPcs

\* C2: save_indicator never raises to main and never ends the process when
\* the write fails, be it at obtaining the cursor or at the INSERT: control
\* stays in the loop with no exception pending; a failed INSERT leaves the
\* store as it was; and when the iteration completes, each signal whose
\* write did not fail has exactly one record of this iteration in the store
\* and each signal whose write failed has none.
C2_WriteFailureDropped ==
    /\ [][(pc \in {"save_cursor", "save_execute"}
             /\ exc'.type # "SystemExit")
            => /\ pc' \in RunningPcs
               /\ exc' = exc
               /\ exitCode' = -1]_vars
    /\ [][(pc = "save_execute" /\ saveLog'[sig] = "error")
            => store' = store]_vars
    /\ [](pc = "sleep" =>
            \A s \in Signals :
                /\ saveLog[s] \in {"saved", "error"}
                /\ RecordCount(s) = IF saveLog[s] = "error" THEN 0 ELSE 1)

\* C3: a bootstrap failure during Initializing (connect, or a statement of
\* the schema setup) ends the process with a non-zero exit status, and the
\* process never enters Running.
BootstrapFailed ==
    /\ exc.at \in InitPcs
    /\ Failed \/ (exc.type = "SystemExit" /\ exc.code = 1)
C3_BootstrapFailureExitsNonZero ==
    BootstrapFailed =>
        /\ pc \notin RunningPcs
        /\ pc = "stopped" => exitCode # 0

\* C4: a process that stopped out of Running has exit code 0 exactly when
\* it was stopped by a signal; after an exception escaped the loop body the
\* error is logged at critical level and the exit code is non-zero.
C4_ExitCodes ==
    (pc = "stopped" /\ exc.at \in RunningPcs) =>
        /\ exitCode = 0 <=> exc.type = "SystemExit"
        /\ Failed => critical

\* C5: a signal's evaluation that was in flight (its first query issued, its
\* record not yet appended) when the termination request arrived is
\* finished: its record is in the store when the process has stopped.
InFlightPcs == {"search_success", "extract", "save_cursor", "save_execute"}
C5_InFlightSignalFinishes ==
    (pc = "stopped" /\ exc.type = "SystemExit" /\ exc.code = 0
        /\ exc.at \in InFlightPcs)
    => \E i \in DOMAIN store :
          /\ store[i].name = SignalName(exc.sig)
          /\ store[i].datetime = current_time

\* C6: after a termination request received in Running no new iteration is
\* started and no query is issued (the process only leaves main), and the
\* process eventually stops with exit code 0.
C6_TerminationStopsLoop ==
    /\ [][TermInRunning =>
            /\ iter' = iter
            /\ current_time' = current_time
            /\ pc' \in {"finally", "stopped"}]_vars
    /\ (TermInRunning ~> (pc = "stopped" /\ exitCode = 0))

\* C6 witness: stopped with exit code 0 after a termination request that
\* arrived during the first iteration, with a further iteration possible
C6_Witness ==
    /\ TermInRunning
    /\ iter = 1
    /\ iter < MaxIter
    /\ pc = "stopped"
    /\ exitCode = 0

\* C7: bootstraps that run one after the other, from any prior schema,
\* never issue a statement the server rejects, and once one of them has
\* completed there is one database, one table, one index on datetime and
\* one index on name.
FullSchema == [db |-> TRUE, table |-> TRUE, idx_datetime |-> 1, idx_name |-> 1]
C7_BootstrapIdempotent ==
    ~overlap =>
        /\ pc \in BootStmts => StatementAccepted(pc, schema)
        /\ pc2 \in BootStmts => StatementAccepted(pc2, schema)
        /\ (pc = "loop_top" \/ pc2 = "booted") => schema = FullSchema

\* C7 witness: both bootstraps completed, one after the other
C7_Witness ==
    /\ ~overlap
    /\ pc = "loop_top"
    /\ pc2 = "booted"
    /\ schema = FullSchema

\* C8: however the statements of two bootstraps interleave, none is
\* rejected, and when both have completed there is one index on datetime
\* and one index on name.
C8_ConcurrentBootstrapSafe ==
    /\ pc \in BootStmts => StatementAccepted(pc, schema)
    /\ pc2 \in BootStmts => StatementAccepted(pc2, schema)
    /\ (pc = "loop_top" /\ pc2 = "booted") =>
          (schema.idx_datetime = 1 /\ schema.idx_name = 1)

\* C9: search never raises, and returns the empty list on a timeout, a
\* transport error, a status outside 200..299, a body that is not a JSON
\* object, and a response without hits: the same value in each case.
SearchFailure(resp) ==
    \/ resp.io \in {"timeout", "connection_error"}
    \/ resp.status < 200 \/ resp.status > 299
    \/ resp.body.t \in {"notjson", "array"}
    \/ resp.body.hits.t \in {"absent", "null"}
    \/ resp.body.hits = EmptyList
C9_SearchFailSoft ==
    stage = "searched" =>
        /\ res.exc = "none"
        /\ SearchFailure(arg.resp) => res.hits = EmptyList

\* C10: get_sum_from_mage_response never raises, and returns 0 when the
\* rows are empty, the first row is not a non-empty record, the field is
\* absent, or its value is not a number a float can hold.
Unparseable(hits, field_name) ==
    \/ hits.t # "list"
    \/ Len(hits.rows) = 0
    \/ hits.rows[1].t # "dict"
    \/ ~hits.rows[1].truthy
    \/ hits.rows[1].f[field_name].t \notin {"num", "numstr"}
C10_ExtractNeverRaises ==
    stage = "extracted" =>
        /\ res.exc = "none"
        /\ Unparseable(res.hits, arg.field) => res.num = 0

(***************************************************************************)
(* The evaluator on its own: counts go through calculate_availability_sli, *)
(* the percentage through the verdict and into the arguments of            *)
(* save_indicator, as in the loop body of main.                            *)
(***************************************************************************)
\* the counts: small ones, and those of the scenarios with 1000 events
Counts == 0..MaxCount \cup {998, 999, 1000}

ApplyRatio ==
    /\ stage = "counts"
    /\ outcome' = [outcome EXCEPT !.percentage =
                      calculate_availability_sli(counts.total, counts.success)]
    /\ stage' = "ratio"
    /\ UNCHANGED <<loopVars, pc, schema, conn, db, exc, exitCode, critical,
                   pc2, overlap, arg, res, config, counts, prober>>

ApplyVerdict ==
    /\ stage = "ratio"
    /\ outcome' = [outcome EXCEPT !.record =
                      MakeRecord(counts.sig, outcome.percentage,
                                 config.sla_period_minutes, current_time)]
    /\ stage' = "record"
    /\ UNCHANGED <<loopVars, pc, schema, conn, db, exc, exitCode, critical,
                   pc2, overlap, arg, res, config, counts, prober>>

InitRatio ==
    /\ pc = "connect"
    /\ sig = 1
    /\ iter = 0
    /\ now = 0
    /\ current_time = 0
    /\ schema = [db |-> FALSE, table |-> FALSE,
                 idx_datetime |-> 0, idx_name |-> 0]
    /\ store = <<>>
    /\ conn = FALSE
    /\ db = FALSE
    /\ totalHits = EmptyList
    /\ successHits = EmptyList
    /\ exc = NoExc
    /\ exitCode = -1
    /\ critical = FALSE
    /\ saveLog = NoLog
    /\ pc2 = "off"
    /\ overlap = FALSE
    /\ stage = "counts"
    /\ arg = NoArg
    /\ res = NoRes
    /\ config = DefaultConfig
    /\ counts \in [total : Counts, success : Counts, sig : Signals]
    /\ outcome = NoOutcome
    /\ prober = NoProber

NextRatio ==
    \/ ApplyRatio
    \/ ApplyVerdict

SpecRatio == InitRatio /\ [][NextRatio]_vars

\* C11: with total = 0 the ratio is exactly 100, whatever success is.
C11_ZeroTotalIsHundred ==
    (stage \in {"ratio", "record"} /\ counts.total = 0) =>
        outcome.percentage = [num |-> 100, den |-> 1]

\* C11 witness: the ratio of no events with a positive success count is 100
C11_Witness ==
    /\ stage = "ratio"
    /\ counts.total = 0
    /\ counts.success > 0
    /\ outcome.percentage = [num |-> 100, den |-> 1]

\* C12: with total > 0 the ratio is success / total * 100, above 100 when
\* success > total, and the verdict and the record are made of that value.
C12_RatioUnclamped ==
    /\ (stage \in {"ratio", "record"} /\ counts.total > 0) =>
          /\ outcome.percentage.den > 0
          /\ outcome.percentage.num * counts.total
                = counts.success * 100 * outcome.percentage.den
          /\ counts.success > counts.total =>
                outcome.percentage.num > 100 * outcome.percentage.den
    /\ (stage = "record" /\ counts.total > 0) =>
          /\ outcome.record.sli.num * counts.total
                = counts.success * 100 * outcome.record.sli.den
          /\ outcome.record.is_bad <=>
                (counts.success * 1000
                    < outcome.record.slo_target * counts.total)

\* C12 witness: a record whose value is above 100
C12_Witness ==
    /\ stage = "record"
    /\ counts.total > 0
    /\ counts.success > counts.total
    /\ outcome.record.sli.num > 100 * outcome.record.sli.den
    /\ ~outcome.record.is_bad

\* C13: the verdict of a record is bad exactly when its percentage is
\* strictly below the target of its signal (99.9 and 98.0); 999 of 1000
\* against 99.9 passes, 998 of 1000 is bad.
C13_VerdictStrict ==
    stage = "record" =>
        LET r == outcome.record
        IN  /\ r.slo_target = IF counts.sig = 1 THEN 999 ELSE 980
            /\ r.is_bad <=> (r.sli.num * 10 < r.slo_target * r.sli.den)
            /\ (counts.sig = 1 /\ counts.total = 1000 /\ counts.success = 999)
                  => ~r.is_bad
            /\ (counts.sig = 1 /\ counts.total = 1000 /\ counts.success = 998)
                  => r.is_bad

\* C13 witness: the boundary, 999 of 1000 against 99.9, passes
C13_Witness ==
    /\ stage = "record"
    /\ counts = [total |-> 1000, success |-> 999, sig |-> 1]
    /\ outcome.record.sli = [num |-> 999, den |-> 10]
    /\ ~outcome.record.is_bad

(***************************************************************************)
(* Properties of the records in the store.                                 *)
(***************************************************************************)
\* the hundred percent of an empty window
Hundred == [num |-> 100, den |-> 1]
\* the number of records of signal s in the store
NameCount(s) ==
    Cardinality({i \in DOMAIN store : store[i].name = SignalName(s)})

\* C14: when the total-count query of a signal has failed, then whatever
\* the success-count query returned, no exception leaves the evaluation of
\* the signal, the extracted total is 0, and the record handed to the store
\* has value 100 and is not bad.
TotalQueryFailed ==
    /\ totalHits = EmptyList
    /\ \/ pc \in InFlightPcs
       \/ pc \in {"except", "finally", "stopped"} /\ exc.at \in InFlightPcs
C14_TotalTimeoutGivesHundred ==
    TotalQueryFailed =>
        /\ exc.type # "OverflowError"
        /\ TotalVal.val = 0
        /\ pc \in {"save_cursor", "save_execute"} =>
              /\ IndicatorRecord.sli = Hundred
              /\ ~IndicatorRecord.is_bad

\* C15 as claimed: in every completed iteration the store has gained
\* exactly one record of each signal.
C15_ExactlyOnePerIteration ==
    pc = "sleep" => \A s \in Signals : RecordCount(s) = 1

\* C15 as amended: a signal never has two records of one iteration nor more
\* records than iterations were started, and in a completed iteration it
\* has gained one record if its write succeeded and none if its write
\* failed.
C15_AtMostOnePerIteration ==
    \A s \in Signals :
        /\ RecordCount(s) <= 1
        /\ NameCount(s) <= iter
        /\ pc = "sleep" => (RecordCount(s) = 1 <=> saveLog[s] = "saved")
        /\ pc = "sleep" => (RecordCount(s) = 0 <=> saveLog[s] = "error")

\* C15 witness: the second iteration completed with both records written
C15_Witness ==
    /\ pc = "sleep"
    /\ iter = 2
    /\ \A s \in Signals : saveLog[s] = "saved" /\ RecordCount(s) = 1

\* C16: of two records of one signal, the one appended later has a
\* timestamp that is not smaller.
C16_TimestampsNonDecreasing ==
    \A i, j \in DOMAIN store :
        (i < j /\ store[i].name = store[j].name)
            => store[i].datetime <= store[j].datetime

\* C16 witness: two records of one signal from two iterations
C16_Witness ==
    \E i, j \in DOMAIN store :
        /\ i < j
        /\ store[i].name = store[j].name
        /\ store[i].datetime < store[j].datetime
        /\ iter = 2

\* C17: every step leaves the rows the store held as a prefix of the rows
\* it holds afterwards: nothing is updated or deleted.
C17_AppendOnly ==
    [][/\ Len(store') >= Len(store)
       /\ SubSeq(store', 1, Len(store)) = store]_vars

\* C17 witness: the record of an earlier run is still the first row after
\* the process restarted, bootstrapped, wrote a record and stopped
C17_Witness ==
    /\ pc = "stopped"
    /\ Len(store) >= 2
    /\ store[1] = EarlierRecord
    /\ store[2].datetime = current_time

(***************************************************************************)
(* Properties of the evaluation window.                                    *)
(***************************************************************************)
\* C18: every window the loop computes has start < end, with start = end
\* minus the configured period, for each value of SLA_PERIOD_MINUTES, and
\* the period is the same in all iterations of a run.
C18_WindowOrdered ==
    /\ [](iter >= 1 =>
            /\ start_time = current_time - 60 * config.sla_period_minutes
            /\ start_time < current_time)
    /\ [][config' = config]_vars

\* C19: when the first row is a record that holds the field as a number,
\* the result is the value of the first row, whatever rows follow.
FirstRowParses(hits, field_name) ==
    /\ hits.t = "list"
    /\ Len(hits.rows) >= 1
    /\ hits.rows[1].t = "dict"
    /\ hits.rows[1].truthy
    /\ hits.rows[1].f[field_name].t \in {"num", "numstr"}
C19_FirstRowOnly ==
    (stage = "extracted" /\ FirstRowParses(res.hits, arg.field)) =>
        /\ res.exc = "none"
        /\ res.num = res.hits.rows[1].f[arg.field].n

\* C19 witness: two rows that hold the field with different values; the
\* result is the value of the first
C19_Witness ==
    /\ stage = "extracted"
    /\ FirstRowParses(res.hits, arg.field)
    /\ Len(res.hits.rows) = 2
    /\ res.hits.rows[2].f[arg.field].t = "num"
    /\ res.hits.rows[2].f[arg.field].n # res.hits.rows[1].f[arg.field].n
    /\ res.num = res.hits.rows[1].f[arg.field].n

\* the step that starts an iteration after an earlier one
NextIteration == pc = "loop_top" /\ pc' = "search_total" /\ iter >= 1
\* the scrape interval is smaller than the window, both in seconds
IntervalBelowWindow == scrape_interval < 60 * config.sla_period_minutes
\* the overlap of the window that ended at end1 with the window of the
\* given period that ends at end2
WindowOverlap(end1, end2, period) == end1 - WindowStart(end2, period)

\* C20 as claimed: the ends of consecutive windows differ by exactly the
\* scrape interval, so the windows overlap by exactly the window length
\* minus the scrape interval.
C20_OverlapExact ==
    [][(NextIteration /\ IntervalBelowWindow) =>
          /\ current_time' - current_time = scrape_interval
          /\ WindowOverlap(current_time, current_time',
                           config.sla_period_minutes)
                = 60 * config.sla_period_minutes - scrape_interval]_vars

\* C20 as amended: the ends of consecutive windows differ by the scrape
\* interval plus the time the iteration took, hence by at least the scrape
\* interval, and the windows overlap by at most the window length minus the
\* scrape interval.
C20_OverlapAtMost ==
    [][(NextIteration /\ IntervalBelowWindow) =>
          /\ current_time' - current_time >= scrape_interval
          /\ WindowOverlap(current_time, current_time',
                           config.sla_period_minutes)
                <= 60 * config.sla_period_minutes - scrape_interval]_vars

\* C20 witness: the second window ends more than a scrape interval after
\* the first, and still inside the length of the first
C20_Witness ==
    /\ iter = 2
    /\ pc = "search_total"
    /\ IntervalBelowWindow
    /\ current_time > scrape_interval
    /\ start_time < scrape_interval

(***************************************************************************)
(* Properties of the connection and of the records of one iteration.       *)
(***************************************************************************)
\* C21: whenever the process has stopped, on whatever path, the storage
\* connection it opened has been closed; and the connection is opened once,
\* by the constructor, never again during the loop.
C21_ConnectionReleased ==
    /\ [](pc = "stopped" => ~conn)
    /\ [][(~conn /\ conn') => pc = "connect"]_vars

\* C22: a record is appended only by the write that follows both queries of
\* its signal, it is computed from the results of both, its datetime is the
\* end of the window of the iteration and its period_minutes the configured
\* period; the record of the second signal carries the datetime of the
\* record of the first signal of the same iteration.
C22_RecordCarriesWindow ==
    [][Len(store') > Len(store) =>
          LET r == store'[Len(store')]
          IN  /\ pc = "save_execute"
              /\ r.name = SignalName(sig)
              /\ r.sli = calculate_availability_sli(TotalVal.val,
                                                    SuccessVal.val)
              /\ r.datetime = current_time
              /\ r.period_minutes = config.sla_period_minutes
              /\ (sig = 2 /\ saveLog[1] = "saved") =>
                    /\ store[Len(store)].name = SignalName(1)
                    /\ store[Len(store)].datetime = r.datetime]_vars

\* C22 witness: both signals of the second iteration are written, time has
\* passed since the window was taken, and the two records carry the end of
\* the window
C22_Witness ==
    /\ pc = "sleep"
    /\ iter = 2
    /\ saveLog[1] = "saved" /\ saveLog[2] = "saved"
    /\ now > current_time
    /\ Len(store) >= 2
    /\ store[Len(store)].name = SignalName(2)
    /\ store[Len(store) - 1].name = SignalName(1)
    /\ store[Len(store)].datetime = current_time
    /\ store[Len(store) - 1].datetime = current_time
    /\ store[Len(store)].period_minutes = config.sla_period_minutes

\* C23: when the total-count query returned a positive total and the
\* success-count query failed, no exception leaves the evaluation, the
\* extracted success is 0 and the record handed to the store has value 0
\* and is bad; when the total-count query failed, the record has value 100
\* and is not bad, whatever the success-count query returned.
Zero == [num |-> 0, den |-> 1]
\* both queries of the signal have returned
BothReturned ==
    \/ pc \in {"extract", "save_cursor", "save_execute"}
    \/ pc \in {"except", "finally", "stopped"}
          /\ exc.at \in {"extract", "save_cursor", "save_execute"}
TotalPositive ==
    /\ totalHits.t = "list"
    /\ Len(totalHits.rows) >= 1
    /\ totalHits.rows[1].f["total_value"].t \in {"num", "huge"}
    /\ totalHits.rows[1].f["total_value"].n > 0
C23_FetchFailureAsymmetry ==
    /\ (BothReturned /\ TotalPositive /\ successHits = EmptyList) =>
          /\ exc.type # "OverflowError"
          /\ SuccessVal.val = 0
          /\ pc \in {"save_cursor", "save_execute"} =>
                /\ IndicatorRecord.sli = Zero
                /\ IndicatorRecord.is_bad
    /\ (BothReturned /\ totalHits = EmptyList) =>
          /\ exc.type # "OverflowError"
          /\ pc \in {"save_cursor", "save_execute"} =>
                /\ IndicatorRecord.sli = Hundred
                /\ ~IndicatorRecord.is_bad

(***************************************************************************)
(* The prober (prober_oncall.py): two probes per round, each with three    *)
(* Prometheus counters.                                                    *)
(***************************************************************************)
\* what a request of the prober ends in: a status code, or
\* requests.exceptions.RequestException
RequestException == -1
HealthcheckOutcomes == {200, 500, RequestException}
CreateOutcomes == {201, 200, 500, RequestException}
DeleteOutcomes == {200, 201, 500, RequestException}

\* the frame of the actions of the prober
mainVars == <<pc, sig, iter, now, current_time, schema, store, conn, db,
              totalHits, successHits, exc, exitCode, critical, saveLog,
              pc2, overlap, stage, arg, res, config, counts, outcome>>

\* _check_api_liveness, first line: PROBER_API_AVAILABILITY_TOTAL.inc()
CheckApiLivenessStart ==
    /\ prober.at = "probe"
    /\ prober.api_total < MaxProbes
    /\ prober' = [prober EXCEPT !.at = "healthcheck",
                                !.api_total = @ + 1]
    /\ UNCHANGED mainVars

\* the try block of _check_api_liveness: status 200 counts a success, any
\* other status and a RequestException count a failure
check_api_liveness(p, status) ==
    IF status = 200
    THEN [p EXCEPT !.api_success = @ + 1]
    ELSE [p EXCEPT !.api_fail = @ + 1]

CheckApiLiveness ==
    /\ prober.at = "healthcheck"
    /\ \E status \in HealthcheckOutcomes :
          prober' = [check_api_liveness(prober, status)
                        EXCEPT !.at = "notification"]
    /\ UNCHANGED mainVars

\* _simulate_notification_delivery, up to the try block
SimulateNotificationStart ==
    /\ prober.at = "notification"
    /\ prober' = [prober EXCEPT !.at = "create",
                                !.notification_total = @ + 1,
                                !.create_success = FALSE,
                                !.delete_success = FALSE,
                                !.create_status = 0,
                                !.delete_status = 0,
                                !.delete_attempted = FALSE]
    /\ UNCHANGED mainVars

\* step 1: session.post returns a status or raises RequestException; a
\* status other than 201 and the exception leave create_success False
CreateUser ==
    /\ prober.at = "create"
    /\ \E status \in CreateOutcomes :
          prober' = [prober EXCEPT
                        !.create_status = status,
                        !.at = IF status = 201 THEN "created" ELSE "record"]
    /\ UNCHANGED mainVars

\* after status 201: the success is logged and create_success = True is
\* assigned; the finally clause attempts the deletion only if create_success
CreateSucceeded ==
    /\ prober.at = "created"
    /\ prober' = [prober EXCEPT !.create_success = TRUE, !.at = "delete"]
    /\ UNCHANGED mainVars

\* step 2: session.delete; delete_success only on status 200
DeleteUser ==
    /\ prober.at = "delete"
    /\ \E status \in DeleteOutcomes :
          prober' = [prober EXCEPT
                        !.delete_attempted = TRUE,
                        !.delete_status = status,
                        !.delete_success = (status = 200),
                        !.at = "record"]
    /\ UNCHANGED mainVars

\* a probe that counts a success once the user was created
notification_outcome_create_only(create_success, delete_success) ==
    create_success

\* the outcome recorded for the simulation
notification_outcome(create_success, delete_success) ==
    create_success /\ delete_success

\* PROBER_NOTIFICATION_DELIVERY_SUCCESS_TOTAL.inc() or ..._FAIL_TOTAL.inc();
\* when the finally clause ends with SystemExit pending, the process exits
RecordOutcome ==
    /\ prober.at = "record"
    /\ LET after == IF prober.exiting THEN "stopped" ELSE "sleep"
       IN  prober' =
              IF notification_outcome(prober.create_success,
                                      prober.delete_success)
              THEN [prober EXCEPT !.notification_success = @ + 1,
                                  !.at = after]
              ELSE [prober EXCEPT !.notification_fail = @ + 1,
                                  !.at = after]
    /\ UNCHANGED mainVars

\* time.sleep(config.prober_scrape_interval), then the next round
ProberSleep ==
    /\ prober.at = "sleep"
    /\ prober' = [prober EXCEPT !.at = "probe"]
    /\ UNCHANGED mainVars

\* the probe that a stop of the prober at position at cuts off
Interrupted(at) ==
    IF at = "healthcheck" THEN "api"
    ELSE IF at \in {"create", "created", "delete", "record"}
    THEN "notification"
    ELSE "none"

\* terminate(signal, frame) of the prober: sys.exit(0) raises SystemExit
\* wherever the main thread is, and the probe under way is left unfinished
ProberTerminate ==
    /\ prober.at # "stopped"
    /\ prober' = [prober EXCEPT !.at = "stopped",
                                !.interrupted = Interrupted(prober.at)]
    /\ UNCHANGED mainVars

\* terminate while the main thread is inside the try block of
\* _simulate_notification_delivery (before the create request returns, after
\* it returned and before create_success is assigned, in the else branch or
\* the except clause, or right after the assignment): SystemExit is pending
\* while the finally clause runs the deletion, if create_success is set, and
\* records the outcome
ProberTerminateInTry ==
    /\ \/ prober.at \in {"create", "created", "delete"}
       \/ prober.at = "record" /\ ~prober.create_success
    /\ ~prober.exiting
    /\ prober' = [prober EXCEPT
                     !.exiting = TRUE,
                     !.at = IF prober.create_success THEN "delete"
                            ELSE "record"]
    /\ UNCHANGED mainVars

InitProber ==
    /\ pc = "connect"
    /\ sig = 1
    /\ iter = 0
    /\ now = 0
    /\ current_time = 0
    /\ schema = [db |-> FALSE, table |-> FALSE,
                 idx_datetime |-> 0, idx_name |-> 0]
    /\ store = <<>>
    /\ conn = FALSE
    /\ db = FALSE
    /\ totalHits = EmptyList
    /\ successHits = EmptyList
    /\ exc = NoExc
    /\ exitCode = -1
    /\ critical = FALSE
    /\ saveLog = NoLog
    /\ pc2 = "off"
    /\ overlap = FALSE
    /\ stage = "off"
    /\ arg = NoArg
    /\ res = NoRes
    /\ config = DefaultConfig
    /\ counts = NoCounts
    /\ outcome = NoOutcome
    /\ prober = NoProber

NextProber ==
    \/ CheckApiLivenessStart
    \/ CheckApiLiveness
    \/ SimulateNotificationStart
    \/ CreateUser
    \/ CreateSucceeded
    \/ DeleteUser
    \/ RecordOutcome
    \/ ProberSleep
    \/ ProberTerminate
    \/ ProberTerminateInTry

SpecProber == InitProber /\ [][NextProber]_vars

\* no call of the probe is under way or was cut off by termination
ApiCallsCompleted ==
    prober.at # "healthcheck" /\ prober.interrupted # "api"
NotificationCallsCompleted ==
    /\ prober.at \notin {"create", "created", "delete", "record"}
    /\ prober.interrupted # "notification"

\* C24: when all calls of a probe have completed, its total counter is the
\* sum of its success and fail counters and success does not exceed total;
\* the notification success counter is incremented only when the create
\* returned 201 and the delete returned 200; and the delete is attempted
\* only when the create succeeded.
C24_ProberCounters ==
    /\ [](ApiCallsCompleted =>
            /\ prober.api_total = prober.api_success + prober.api_fail
            /\ prober.api_success <= prober.api_total)
    /\ [](NotificationCallsCompleted =>
            /\ prober.notification_total
                  = prober.notification_success + prober.notification_fail
            /\ prober.notification_success <= prober.notification_total)
    /\ [][prober'.notification_success > prober.notification_success =>
            /\ prober.create_status = 201
            /\ prober.delete_status = 200]_vars
    /\ [][(~prober.delete_attempted /\ prober'.delete_attempted) =>
            (prober.create_status = 201 /\ prober.create_success)]_vars

\* C24 witness: after two rounds, each probe has counted one success and
\* one failure
C24_Witness ==
    /\ prober.at = "sleep"
    /\ prober.api_total = 2
    /\ prober.api_success = 1 /\ prober.api_fail = 1
    /\ prober.notification_total = 2
    /\ prober.notification_success = 1 /\ prober.notification_fail = 1

====
